---- MODULE Spec2Model ----
(***************************************************************************)
(* Model of prefect/context.py: the ContextModel scope primitive           *)
(* (__enter__ / __exit__ / get over one ContextVar per concrete class),    *)
(* the three concrete contexts and the get_run_context resolver.           *)
(*                                                                         *)
(* An execution unit is one contextvars.Context (an OS thread).  A         *)
(* ContextVar holds one value per Context; ContextVar.set returns a Token  *)
(* (old value, the Context it was made in, a used flag) and                *)
(* ContextVar.reset(token) raises RuntimeError for a used token and        *)
(* ValueError for a token made in another Context, and otherwise puts the  *)
(* old value back.  __enter__ stores the token on the instance itself      *)
(* under the attribute "__token", so the latest enter of an instance       *)
(* overwrites the token of an earlier one; a token no instance holds any   *)
(* more is unreachable and is not part of the state.                       *)
(*                                                                         *)
(* Four specifications share the variables.  Spec has the scope operations *)
(* on values that exist from the start; SpecFields adds construction of    *)
(* run contexts and assignment to their fields under ContextModel.Config;  *)
(* SpecTags has the tag scopes and the default of TagsContext.get;         *)
(* SpecLists has flow run scopes on several threads, the construction of a *)
(* subflow's context, and appends to the two accumulating lists of a       *)
(* FlowRunContext.                                                         *)
(***************************************************************************)
EXTENDS Integers, Sequences, FiniteSets, TLC

\* Number of execution units (unit 1 is the main thread, the others are
\* worker threads started later).
NumUnits == 2

\* Bound on the number of __enter__ calls in one behaviour.
MaxEnters == 3

Units == 1..NumUnits

\* Python's None; also stands for "the ContextVar has no value in this Context".
None == "None"

\* The three module-level ContextVars, by their names.
FlowVar == "flow_run"
TaskVar == "task_run"
TagsVar == "tags"
Vars == {FlowVar, TaskVar, TagsVar}

\* The context values a behaviour can construct: two FlowRunContexts, one
\* TaskRunContext whose parent flow run is F1's, and two TagsContexts.
FlowInstances == {"F1", "F2"}
TaskInstances == {"T1"}
TagsInstances == {"G1", "G2"}
Instances == FlowInstances \cup TaskInstances \cup TagsInstances

\* The instances of the RunContext subclasses, which have a start_time.
RunInstances == FlowInstances \cup TaskInstances

\* The values present when a behaviour of the scope operations begins.
Prebuilt == RunInstances \cup {"G1"}

\* The tag strings, the two accumulating list fields of a FlowRunContext,
\* and a keyword that no context class declares as a field.
Tags == {"a", "b"}
ListFields == {"task_run_futures", "subflow_states"}
ExtraNames == {"unexpected"}

\* The declared fields of a RunContext that the model carries.
FieldNames == {"start_time", "flow_run_id"}

\* A Config that lets fields be assigned after construction.
Config_mutable == TRUE

\* ContextModel.Config: allow_mutation = False, extra = "forbid".
Config_allow_mutation == FALSE
Config_extra == "forbid"

\* What ContextModel(**kwargs) raises when kwargs holds, besides the declared
\* fields, the keywords in extra; None when it constructs the value.
ContextModel_init_error(extra) ==
    IF extra # {} /\ Config_extra = "forbid" THEN "ValidationError" ELSE None

\* What the assignment instance.name = value raises, or None.
ContextModel_setattr_error(name) ==
    IF Config_extra # "allow" /\ name \notin FieldNames THEN "ValueError"
    ELSE IF ~Config_allow_mutation THEN "TypeError"
    ELSE None

\* One list made when the class is defined and used by every instance.
class_level_list(f, fld) == "F1"

\* The list object in field fld of flow context f, named by the instance it
\* was made for: default_factory=list makes a new list for each instance.
list_object(f, fld) == f

\* A list whose append writes the slot it computed from a stale length.
list_append_stale_slot(l, x) == IF l = <<>> THEN <<x>> ELSE [l EXCEPT ![Len(l)] = x]

\* list.append on a Python list: one indivisible step of the interpreter.
list_append(l, x) == Append(l, x)

\* A field kept once on the class and shared by all its instances.
class_level_current_tags(ct, g, tags) == [h \in TagsInstances |-> tags]

\* current_tags is a field of the instance: constructing g sets g's own only.
store_current_tags(ct, g, tags) == [ct EXCEPT ![g] = tags]

\* The tags a new scope of the prefect.tags interface carries: the caller's
\* current tags together with the supplied ones, as a new set.
new_tags(current, supplied) == current \cup supplied

\* One ContextVar declared on the base class and shared by every subclass.
var_of_base_class(i) == FlowVar

\* cls.__var__ of an instance's class.
var_of(i) ==
    IF i \in FlowInstances THEN FlowVar
    ELSE IF i \in TaskInstances THEN TaskVar
    ELSE TagsVar

\* The flow_run_id field (FlowRunContext and TaskRunContext only).
flow_run_id(i) ==
    CASE i = "F1" -> "run1"
      [] i = "F2" -> "run2"
      [] i = "T1" -> "run1"
      [] OTHER -> None

\* TagsContext(): the value TagsContext.get() falls back to.
DefaultTags == "TagsContext()"

\* How a scoped body ends: normally, by raising, or by cancellation.
BodyOutcomes == {None, "Exception", "Cancelled"}

\* A Context in which no ContextVar has a value.
EmptyContext == [v \in Vars |-> None]

\* The "__token" attribute of an instance that was never entered.
NoToken == [old |-> None, ctx |-> 0, used |-> FALSE]

VARIABLES
    started,   \* the units that are running
    ctx,       \* ctx[u][v]: the value of ContextVar v in unit u's Context
    token,     \* token[i]: the Token held in the instance's "__token" attribute
    stack,     \* history: per unit, the enters not yet exited, innermost last
    nested,    \* history: every exit so far was of its unit's innermost enter
    entered,   \* history: per unit, the instances it has ever entered
    enters,    \* history: the number of __enter__ calls so far
    constructed,   \* the instances that exist
    fields,        \* fields[i]: the declared fields of RunContext instance i
    current_tags,  \* current_tags[g]: the field of TagsContext instance g
    default_tags,  \* the current_tags of the TagsContext() that the latest
                   \* TagsContext.get() made, as its holder changed it since
    lists,         \* lists[o][fld]: the contents of the list object made for
                   \* field fld of flow context o
    appended       \* history: appended[u] = <<f, fld>> once unit u has appended
                   \* its element to lists[f][fld], else <<>>

scope_vars == <<started, ctx, token, stack, nested, entered, enters>>
data_vars == <<constructed, fields, current_tags, default_tags, lists, appended>>
vars == <<started, ctx, token, stack, nested, entered, enters,
          constructed, fields, current_tags, default_tags, lists, appended>>

\* The time on the clock read by pendulum.now("UTC"): it moves on with
\* every construction and every enter.
now == Cardinality(constructed) + enters

\* The fields of a RunContext that was not constructed yet.
NoFields == [start_time |-> 0, flow_run_id |-> None]

\* An __enter__ that starts the run's clock: start_time becomes the time of entry.
enter_restarts_timer(f, i) ==
    IF i \in RunInstances THEN [f EXCEPT ![i].start_time = now] ELSE f

\* The declared fields after __enter__: it writes the attribute "__token" of
\* the instance and nothing else.
enter_fields(f, i) == f

\* One default TagsContext made once and handed out by every get.
shared_default_tags == default_tags

\* The current_tags of a TagsContext(): default_factory=set makes a new empty
\* set for every instance constructed.
fresh_default_tags == {}

\* TagsContext.get().current_tags on a Context; the argument TagsContext() of
\* __var__.get is evaluated on every call.
get_current_tags(c) ==
    IF c[TagsVar] = None THEN fresh_default_tags ELSE current_tags[c[TagsVar]]

\* A thread that ran in a copy of its parent's Context, as a cooperative
\* task does.
InheritedContext(parent) == parent

\* The Context a newly started thread runs in: threads do not inherit.
NewThreadContext(parent) == EmptyContext

\* A variable shared by all units.
GlobalVar_set(c, u, v, val) == [w \in Units |-> [c[w] EXCEPT ![v] = val]]

\* ContextVar.set in unit u's Context.
ContextVar_set(c, u, v, val) == [c EXCEPT ![u][v] = val]

\* ContextModel.get: cls.__var__.get(None).
ContextModel_get(c, v) == c[v]

\* TagsContext.get: cls.__var__.get(TagsContext()).
TagsContext_get(c) == IF c[TagsVar] = None THEN DefaultTags ELSE c[TagsVar]

\* cls.get() for the class owning ContextVar v.
get_of(c, v) == IF v = TagsVar THEN TagsContext_get(c) ELSE ContextModel_get(c, v)

\* A resolver that looks the flow run context up first.
get_run_context_flow_first(c) ==
    IF c[FlowVar] # None THEN [raised |-> None, ret |-> c[FlowVar]]
    ELSE IF c[TaskVar] # None THEN [raised |-> None, ret |-> c[TaskVar]]
    ELSE [raised |-> "RuntimeError", ret |-> None]

\* A resolver that returns None outside a run instead of raising.
get_run_context_or_none(c) ==
    IF c[TaskVar] # None THEN [raised |-> None, ret |-> c[TaskVar]]
    ELSE [raised |-> None, ret |-> c[FlowVar]]

\* get_run_context on a Context: the task run context if there is one, else
\* the flow run context if there is one, else RuntimeError.
get_run_context_of(c) ==
    LET task_run_ctx == ContextModel_get(c, TaskVar)
        flow_run_ctx == ContextModel_get(c, FlowVar)
    IN  IF task_run_ctx # None THEN [raised |-> None, ret |-> task_run_ctx]
        ELSE IF flow_run_ctx # None THEN [raised |-> None, ret |-> flow_run_ctx]
        ELSE [raised |-> "RuntimeError", ret |-> None]

\* A reset that also refuses a token whose instance is not the one bound.
ResetErrorUnlessBound(u, i) ==
    IF token[i] = NoToken THEN "AttributeError"
    ELSE IF token[i].used THEN "RuntimeError"
    ELSE IF token[i].ctx # u THEN "ValueError"
    ELSE IF ctx[u][var_of(i)] # i THEN "RuntimeError"
    ELSE None

\* A reset that accepts a token made in any Context.
ResetErrorAnyContext(u, i) ==
    IF token[i] = NoToken THEN "AttributeError"
    ELSE IF token[i].used THEN "RuntimeError"
    ELSE None

\* A reset that accepts a token again after it has been used.
ResetErrorReusable(u, i) ==
    IF token[i] = NoToken THEN "AttributeError"
    ELSE IF token[i].ctx # u THEN "ValueError"
    ELSE None

\* What self.__var__.reset(getattr(self, "__token")) raises in unit u, or None.
ResetError(u, i) ==
    IF token[i] = NoToken THEN "AttributeError"
    ELSE IF token[i].used THEN "RuntimeError"
    ELSE IF token[i].ctx # u THEN "ValueError"
    ELSE None

\* An exit that clears the variable instead of putting the old value back.
ContextVar_reset_to_none(c, u, i) ==
    IF ResetError(u, i) = None THEN ContextVar_set(c, u, var_of(i), None)
    ELSE c

\* ContextVar.reset with the instance's token in unit u's Context: the old
\* value is put back unless reset raises.
ContextVar_reset(c, u, i) ==
    IF ResetError(u, i) = None THEN ContextVar_set(c, u, var_of(i), token[i].old)
    ELSE c

\* The index in s of the innermost open enter of instance i, or 0.
LastIndexOf(s, i) ==
    LET hits == {k \in 1..Len(s) : s[k].inst = i}
    IN  IF hits = {} THEN 0 ELSE CHOOSE k \in hits : \A j \in hits : j <= k

RemoveAt(s, k) == [j \in 1..(Len(s) - 1) |-> IF j < k THEN s[j] ELSE s[j + 1]]

\* What __exit__ returns to the with statement: nothing, whatever the body did.
exit_returns(exc) == None

\* What the with statement raises once the body ended as exc and __exit__
\* raised `raised` or else returned ret: an error of __exit__ replaces the
\* body's, a true return value swallows it, anything else lets it through.
with_raises(exc, raised, ret) ==
    IF raised # None THEN raised
    ELSE IF ret # None THEN None
    ELSE exc

Init ==
    /\ started = {1}
    /\ ctx = [u \in Units |-> EmptyContext]
    /\ token = [i \in Instances |-> NoToken]
    /\ stack = [u \in Units |-> <<>>]
    /\ nested = TRUE
    /\ entered = [u \in Units |-> {}]
    /\ enters = 0
    /\ constructed = Prebuilt
    /\ fields = [i \in RunInstances |->
                    [start_time |-> 0, flow_run_id |-> flow_run_id(i)]]
    /\ current_tags = [g \in TagsInstances |-> {}]
    /\ default_tags = {}
    /\ lists = [f \in FlowInstances |-> [fld \in ListFields |-> <<>>]]
    /\ appended = [u \in Units |-> <<>>]

\* The state before any context value is constructed.
InitFresh ==
    /\ started = {1}
    /\ ctx = [u \in Units |-> EmptyContext]
    /\ token = [i \in Instances |-> NoToken]
    /\ stack = [u \in Units |-> <<>>]
    /\ nested = TRUE
    /\ entered = [u \in Units |-> {}]
    /\ enters = 0
    /\ constructed = {}
    /\ fields = [i \in RunInstances |-> NoFields]
    /\ current_tags = [g \in TagsInstances |-> {}]
    /\ default_tags = {}
    /\ lists = [f \in FlowInstances |-> [fld \in ListFields |-> <<>>]]
    /\ appended = [u \in Units |-> <<>>]

\* A running unit p starts worker thread u; threads are numbered in the
\* order in which they start.
start_thread(p, u) ==
    /\ p \in started
    /\ u \notin started
    /\ u - 1 \in started
    /\ started' = started \cup {u}
    /\ ctx' = [ctx EXCEPT ![u] = NewThreadContext(ctx[p])]
    /\ UNCHANGED <<token, stack, nested, entered, enters>>
    /\ UNCHANGED data_vars

\* RunContext subclass construction: cls(**kwargs) with the declared fields
\* and the keywords in extra.  start_time is set by its default_factory.
construct(i, extra) ==
    LET err == ContextModel_init_error(extra)
    IN  /\ i \in RunInstances \ constructed
        /\ constructed' = IF err = None THEN constructed \cup {i} ELSE constructed
        /\ fields' = IF err = None
                      THEN [fields EXCEPT ![i] = [start_time |-> now,
                                                  flow_run_id |-> flow_run_id(i)]]
                      ELSE fields
        /\ UNCHANGED scope_vars
        /\ UNCHANGED <<current_tags, default_tags, lists, appended>>

\* The assignment i.name = value, with a value the field does not hold.
setattr(i, name) ==
    /\ i \in RunInstances \cap constructed
    /\ fields' = IF ContextModel_setattr_error(name) = None
                  THEN [fields EXCEPT ![i][name] =
                           IF name = "start_time" THEN now ELSE "another"]
                  ELSE fields
    /\ UNCHANGED scope_vars
    /\ UNCHANGED <<constructed, current_tags, default_tags, lists, appended>>

\* What __enter__ does to the scope state: self.__var__.set(self), the token
\* kept on the instance.
bind(u, i) ==
    /\ u \in started
    /\ enters < MaxEnters
    /\ enters' = enters + 1
    /\ token' = [token EXCEPT ![i] =
                    [old |-> ctx[u][var_of(i)], ctx |-> u, used |-> FALSE]]
    /\ ctx' = ContextVar_set(ctx, u, var_of(i), i)
    /\ stack' = [stack EXCEPT ![u] = Append(@, [inst |-> i, before |-> ctx[u]])]
    /\ entered' = [entered EXCEPT ![u] = @ \cup {i}]
    /\ UNCHANGED <<started, nested>>

\* i.__enter__() on unit u.
enter(u, i) ==
    /\ i \in constructed
    /\ bind(u, i)
    /\ fields' = enter_fields(fields, i)
    /\ UNCHANGED <<constructed, current_tags, default_tags, lists, appended>>

\* with prefect.tags(*supplied): on unit u: a new TagsContext g carrying the
\* caller's current tags and the supplied ones is constructed and entered.
tags(u, g, supplied) ==
    /\ g \in TagsInstances \ constructed
    /\ constructed' = constructed \cup {g}
    /\ current_tags' = store_current_tags(current_tags, g,
                            new_tags(get_current_tags(ctx[u]), supplied))
    /\ bind(u, g)
    /\ fields' = enter_fields(fields, g)
    /\ UNCHANGED <<default_tags, lists, appended>>

\* i.__exit__(*_) on unit u.  The arguments (how the body ended) are discarded.
exit(u, i) ==
    LET k == LastIndexOf(stack[u], i)
    IN  /\ u \in started
        /\ i \in constructed
        /\ UNCHANGED <<started, entered, enters>>
        /\ UNCHANGED data_vars
        /\ ctx' = ContextVar_reset(ctx, u, i)
        /\ token' = [token EXCEPT ![i].used = @ \/ ResetError(u, i) = None]
        /\ stack' = [stack EXCEPT ![u] = IF k = 0 THEN @ ELSE RemoveAt(@, k)]
        /\ nested' = (nested /\ k # 0 /\ k = Len(stack[u]))

\* cls.get() on unit u, for the class owning ContextVar v.
get(u, v) ==
    /\ u \in started
    /\ get_of(ctx[u], v) \in Instances \cup {None, DefaultTags}
    /\ default_tags' = IF v = TagsVar /\ ctx[u][TagsVar] = None
                        THEN fresh_default_tags ELSE default_tags
    /\ UNCHANGED scope_vars
    /\ UNCHANGED <<constructed, fields, current_tags, lists, appended>>

\* TagsContext.get().current_tags.add(t) on unit u: the frozen model does not
\* stop a change made in place to the set it holds.
add_in_place(u, t) ==
    /\ u \in started
    /\ IF ctx[u][TagsVar] = None
       THEN /\ default_tags' = get_current_tags(ctx[u]) \cup {t}
            /\ UNCHANGED current_tags
       ELSE /\ current_tags' = [current_tags EXCEPT ![ctx[u][TagsVar]] = @ \cup {t}]
            /\ UNCHANGED default_tags
    /\ UNCHANGED scope_vars
    /\ UNCHANGED <<constructed, fields, lists, appended>>

\* FlowRunContext.get().<fld>.append(x) on unit u, x being the element (a
\* future, a state) that unit u contributes.
append(u, fld) ==
    LET f == ContextModel_get(ctx[u], FlowVar)
    IN  /\ u \in started
        /\ f # None
        /\ appended[u] = <<>>
        /\ lists' = [lists EXCEPT ![list_object(f, fld)][fld] = list_append(@, u)]
        /\ appended' = [appended EXCEPT ![u] = <<f, fld>>]
        /\ UNCHANGED scope_vars
        /\ UNCHANGED <<constructed, fields, current_tags, default_tags>>

\* get_run_context() on unit u.
get_run_context(u) ==
    /\ u \in started
    /\ get_run_context_of(ctx[u]).raised \in {None, "RuntimeError"}
    /\ UNCHANGED vars

Next ==
    \/ \E p \in Units, u \in Units : start_thread(p, u)
    \/ \E u \in Units, i \in Instances : enter(u, i)
    \/ \E u \in Units, i \in Instances : exit(u, i)
    \/ \E u \in Units, v \in Vars : get(u, v)
    \/ \E u \in Units : get_run_context(u)

Spec == Init /\ [][Next]_vars

\* Construction of run contexts, assignment to their fields, and their scopes.
NextFields ==
    \/ \E i \in RunInstances, extra \in SUBSET ExtraNames : construct(i, extra)
    \/ \E i \in RunInstances, name \in FieldNames \cup ExtraNames : setattr(i, name)
    \/ \E u \in Units, i \in RunInstances : enter(u, i)
    \/ \E u \in Units, i \in RunInstances : exit(u, i)
    \/ \E u \in Units, v \in Vars : get(u, v)

SpecFields == InitFresh /\ [][NextFields]_vars

\* Tag scopes.
NextTags ==
    \/ \E u \in Units, g \in TagsInstances, supplied \in SUBSET Tags : tags(u, g, supplied)
    \/ \E u \in Units, g \in TagsInstances : exit(u, g)
    \/ \E u \in Units : get(u, TagsVar)
    \/ \E u \in Units, t \in Tags : add_in_place(u, t)

SpecTags == InitFresh /\ [][NextTags]_vars

\* Flow run scopes on several threads and appends to the accumulating lists.
NextLists ==
    \/ \E p \in Units, u \in Units : start_thread(p, u)
    \/ \E u \in Units, f \in FlowInstances : enter(u, f)
    \/ \E u \in Units, f \in FlowInstances : exit(u, f)
    \/ \E u \in Units, fld \in ListFields : append(u, fld)
    \/ \E f \in FlowInstances, extra \in SUBSET ExtraNames : construct(f, extra)

\* The state in which the subflow's context F2 is yet to be constructed.
InitLists ==
    /\ started = {1}
    /\ ctx = [u \in Units |-> EmptyContext]
    /\ token = [i \in Instances |-> NoToken]
    /\ stack = [u \in Units |-> <<>>]
    /\ nested = TRUE
    /\ entered = [u \in Units |-> {}]
    /\ enters = 0
    /\ constructed = Prebuilt \ {"F2"}
    /\ fields = [i \in RunInstances |->
                    IF i = "F2" THEN NoFields
                    ELSE [start_time |-> 0, flow_run_id |-> flow_run_id(i)]]
    /\ current_tags = [g \in TagsInstances |-> {}]
    /\ default_tags = {}
    /\ lists = [f \in FlowInstances |-> [fld \in ListFields |-> <<>>]]
    /\ appended = [u \in Units |-> <<>>]

SpecLists == InitLists /\ [][NextLists]_vars

(***************************************************************************)
(* Vocabulary of the properties.                                           *)
(***************************************************************************)

\* The innermost open enter of unit u (stack[u] must not be empty).
Top(u) == stack[u][Len(stack[u])]

\* Nothing but properly nested enter/exit has been used so far and unit u
\* has an enter open: the next exit of a with statement is of Top(u).inst.
InScope(u) == u \in started /\ nested /\ stack[u] # <<>>

\* No unit other than u has entered anything.
OnlyUnit(u) == \A w \in Units \ {u} : entered[w] = {}

\* What get_run_context answers in Context c.
Resolver(c) == get_run_context_of(c)

\* The step in which unit u leaves its innermost scope: the exit of a with
\* statement, when only with statements have been used so far.
ScopeExit(u) == InScope(u) /\ exit(u, Top(u).inst)

\* Instance a is open on unit u below a later enter of a distinct instance
\* of the same concrete type.
OpenBelow(u, a) ==
    \E j, k \in 1..Len(stack[u]) :
        /\ j < k
        /\ stack[u][j].inst = a
        /\ stack[u][k].inst # a
        /\ var_of(stack[u][k].inst) = var_of(a)

\* The number of open enters of instance i on unit u.
OpenCount(u, i) == Cardinality({k \in 1..Len(stack[u]) : stack[u][k].inst = i})

\* Every enter so far was made on unit u, each of a different instance.
DistinctOn(u) == OnlyUnit(u) /\ enters = Cardinality(entered[u])

\* The instance of the innermost open enter on unit u whose class owns
\* ContextVar v, or None.
InnermostOpen(u, v) ==
    LET hits == {k \in 1..Len(stack[u]) : stack[u][k].inst \in
                    (CASE v = FlowVar -> FlowInstances
                       [] v = TaskVar -> TaskInstances
                       [] OTHER -> TagsInstances)}
    IN  IF hits = {} THEN None
        ELSE stack[u][CHOOSE k \in hits : \A j \in hits : j <= k].inst

\* Unit u has no open enter of instance i.
NotOpen(u, i) == LastIndexOf(stack[u], i) = 0

\* f.<fld> as a reader of flow context f sees it.
field_list(f, fld) == lists[list_object(f, fld)][fld]

(***************************************************************************)
(* C1.  After a properly nested sequence of enter/exit calls on one unit,  *)
(* with every enter matched by its exit, get() for every context type      *)
(* returns what it returned before the first enter (nothing bound).        *)
(* Violated: an instance entered twice keeps only its second token, so     *)
(* the outer exit raises and the instance stays bound.                     *)
(***************************************************************************)
C1_BalancedExitsRestore ==
    \A u \in started :
        (nested /\ stack[u] = <<>> /\ OnlyUnit(u))
            => \A v \in Vars : get_of(ctx[u], v) = get_of(EmptyContext, v)

C3_Answers ==
    \A u \in started :
        /\ (ctx[u][TaskVar] = None /\ ctx[u][FlowVar] # None)
              => Resolver(ctx[u]) = [raised |-> None, ret |-> ctx[u][FlowVar]]
        /\ (ctx[u][TaskVar] = None /\ ctx[u][FlowVar] = None)
              => Resolver(ctx[u]) = [raised |-> "RuntimeError", ret |-> None]

C3_FlowOnlyOrNoActiveRun ==
    /\ []C3_Answers
    /\ [][(ctx' # ctx \/ token' # token) => \A u \in Units : ~get_run_context(u)]_vars

\* The main thread has entered and left a scope, sees no run context any
\* more, and the resolver raises.
C3_Witness ==
    /\ entered[1] # {}
    /\ stack[1] = <<>>
    /\ ctx[1][TaskVar] = None
    /\ ctx[1][FlowVar] = None
    /\ Resolver(ctx[1]).raised = "RuntimeError"

(***************************************************************************)
(* C4.  The resolver follows the scope stack: after each exit of the       *)
(* innermost scope it answers as it did immediately before the matching    *)
(* enter.                                                                  *)
(* Violated: see C1; the exit of an instance whose token was overwritten   *)
(* by a later enter raises and restores nothing.                           *)
(***************************************************************************)
C4_ExitRestoresResolver ==
    [][\A u \in Units :
          (ScopeExit(u) /\ OnlyUnit(u))
              => Resolver(ctx'[u]) = Resolver(Top(u).before)]_vars

(***************************************************************************)
(* C5.  Inside a subflow started from a task body (a FlowRunContext        *)
(* entered while a TaskRunContext is visible), get_run_context returns the *)
(* subflow's FlowRunContext.                                               *)
(* Violated: the task context is still bound and is looked up first.       *)
(***************************************************************************)
C5_SubflowSeesOwnFlowRunContext ==
    \A u \in started :
        (/\ InScope(u)
         /\ Top(u).inst \in FlowInstances
         /\ Top(u).before[TaskVar] # None)
            => Resolver(ctx[u]) = [raised |-> None, ret |-> Top(u).inst]

(***************************************************************************)
(* C6.  Visibility is per execution unit: an enter or exit on one unit     *)
(* changes no binding of any other unit, and the FlowRunContext a unit     *)
(* sees is always one it entered itself.                                   *)
(***************************************************************************)
C6_SeesOwn ==
    \A u \in Units : ctx[u][FlowVar] \in entered[u] \cup {None}

C6_UnitIsolation ==
    /\ []C6_SeesOwn
    /\ [][\A w \in Units :
            ctx'[w] # ctx[w]
                => \A u \in Units \ {w}, i \in Instances :
                       ~(enter(u, i) \/ exit(u, i))]_vars

\* Two flow runs at once, each on its own unit.
C6_Witness ==
    /\ ctx[1][FlowVar] = "F1"
    /\ ctx[2][FlowVar] = "F2"
    /\ entered[1] = {"F1"}
    /\ entered[2] = {"F2"}

(***************************************************************************)
(* C7.  A started worker thread on which nothing has been entered sees no  *)
(* run context and get_run_context raises there, whatever is bound on the  *)
(* other units; once the FlowRunContext seen by the submitting flow body   *)
(* has been entered on the worker, get_run_context on the worker returns a *)
(* context with the same flow_run_id as the submitter's.                   *)
(***************************************************************************)
C7_NoInheritanceThenSameRun ==
    /\ \A w \in started :
          entered[w] = {}
             => /\ get_of(ctx[w], FlowVar) = None
                /\ get_of(ctx[w], TaskVar) = None
                /\ Resolver(ctx[w]).raised = "RuntimeError"
    /\ \A s \in started, w \in started, f \in FlowInstances :
          (/\ s # w
           /\ Resolver(ctx[s]).ret = f
           /\ entered[w] = {f}
           /\ ctx[w][FlowVar] = f)
             => /\ Resolver(ctx[w]).raised = None
                /\ flow_run_id(Resolver(ctx[w]).ret) = flow_run_id(Resolver(ctx[s]).ret)

\* The worker was started while F1 was visible on the main thread and has
\* then entered F1 itself.
C7_Witness ==
    /\ 2 \in started
    /\ Resolver(ctx[1]).ret = "F1"
    /\ entered[2] = {"F1"}
    /\ stack[2] # <<>>
    /\ flow_run_id(Resolver(ctx[2]).ret) = "run1"

(***************************************************************************)
(* C8.  When one context value is entered on two units, each unit's exit   *)
(* of its own entry succeeds and restores the binding that unit saw before *)
(* its own enter.                                                          *)
(* Violated: both enters store their token in the same attribute of the    *)
(* shared instance; the unit whose token was overwritten gets ValueError   *)
(* (or RuntimeError once the other unit has exited) and keeps the binding. *)
(***************************************************************************)
C8_SharedValueExitsRestore ==
    [][\A u \in Units, w \in Units :
          (/\ u # w
           /\ ScopeExit(u)
           /\ OpenCount(u, Top(u).inst) = 1
           /\ Top(u).inst \in entered[w])
              => /\ ResetError(u, Top(u).inst) = None
                 /\ ctx'[u] = Top(u).before]_vars

(***************************************************************************)
(* C9.  However the scoped body ends (normally, by raising, by             *)
(* cancellation), the exit of the innermost scope restores the binding     *)
(* visible before the enter and the with statement raises exactly what     *)
(* the body raised.                                                        *)
(* Violated: see C1 and C8; when the token was overwritten the exit raises *)
(* its own error in place of the body's and restores nothing.              *)
(***************************************************************************)
C9_ExitWhateverTheBodyDid ==
    [][\A u \in Units, exc \in BodyOutcomes :
          (ScopeExit(u) /\ OnlyUnit(u))
              => /\ with_raises(exc, ResetError(u, Top(u).inst), exit_returns(exc)) = exc
                 /\ ctx'[u] = Top(u).before]_vars

(***************************************************************************)
(* C10 as stated.  With A and then a distinct B of the same type entered   *)
(* on one unit, exiting A before B raises.                                 *)
(***************************************************************************)
C10_OutOfOrderExitDetected ==
    [][\A u \in Units, a \in Instances :
          (OpenBelow(u, a) /\ OpenCount(u, a) = 1 /\ OnlyUnit(u) /\ exit(u, a))
              => (ResetError(u, a) # None /\ ctx' = ctx)]_vars

(***************************************************************************)
(* C10 as amended.  Out-of-order exit is not detected: with A and then a   *)
(* distinct B of the same type entered on one unit, and A's token still    *)
(* the unused one of that enter, exiting A before B raises nothing and     *)
(* binds the value that was visible before A was entered.                  *)
(***************************************************************************)
C10_OutOfOrderExitRebindsSilently ==
    [][\A u \in Units, a \in Instances :
          (OpenBelow(u, a) /\ token[a].ctx = u /\ ~token[a].used /\ exit(u, a))
              => /\ ResetError(u, a) = None
                 /\ ctx'[u][var_of(a)]
                      = stack[u][LastIndexOf(stack[u], a)].before[var_of(a)]]_vars

\* F1 then F2 were entered on unit 1, F1 was exited first and then F2:
\* both exits went through and F1, exited, is visible again.
C10_Witness ==
    /\ enters = 2
    /\ entered[1] = {"F1", "F2"}
    /\ stack[1] = <<>>
    /\ ~nested
    /\ token["F1"].used
    /\ token["F2"].used
    /\ ctx[1][FlowVar] = "F1"

(***************************************************************************)
(* C11. Concurrent appends to task_run_futures (and subflow_states) of a   *)
(* FlowRunContext are linearizable per append: when units on different     *)
(* threads each append one element of their own, then under every          *)
(* interleaving every element appended is in the list it was appended to   *)
(* exactly once, and the list holds nothing else.                          *)
(***************************************************************************)
C11_AppendsLinearizable ==
    /\ \A u \in Units :
          appended[u] # <<>> =>
              LET l == lists[appended[u][1]][appended[u][2]]
              IN  Cardinality({k \in 1..Len(l) : l[k] = u}) = 1
    /\ \A f \in FlowInstances, fld \in ListFields :
          \A k \in 1..Len(lists[f][fld]) : appended[lists[f][fld][k]] = <<f, fld>>

\* Units 1 and 2, on different threads, both appended to F1.task_run_futures.
C11_Witness ==
    /\ 2 \in started
    /\ appended[1] = <<"F1", "task_run_futures">>
    /\ appended[2] = <<"F1", "task_run_futures">>
    /\ Len(lists["F1"]["task_run_futures"]) = 2
    /\ {lists["F1"]["task_run_futures"][k] : k \in 1..2} = {1, 2}

(***************************************************************************)
(* C12. TagsContext.get() never fails and never returns None: on a unit    *)
(* with no TagsContext bound (a fresh one, or one whose tag scopes were    *)
(* all exited) it returns a TagsContext whose current_tags is the empty    *)
(* set, whatever happened before, changes made in place to a default       *)
(* returned earlier included.                                              *)
(***************************************************************************)
C12_TagsGetDefaultsToEmpty ==
    \A u \in started :
        /\ TagsContext_get(ctx[u]) # None
        /\ ctx[u][TagsVar] = None
              => /\ TagsContext_get(ctx[u]) = DefaultTags
                 /\ get_current_tags(ctx[u]) = {}

\* Unit 1 exited its tag scope, and a default returned earlier holds a tag
\* that was added to it in place.
C12_Witness ==
    /\ entered[1] # {} /\ stack[1] = <<>> /\ ctx[1][TagsVar] = None
    /\ default_tags # {}
    /\ get_current_tags(ctx[1]) = {}

(***************************************************************************)
(* C13. Entering a tag scope makes the visible tag set the union of the    *)
(* caller's current tags and the supplied tags, and the exit of the        *)
(* innermost tag scope makes the set visible before it visible again:      *)
(* after {"a"} and, nested, {"b"}, TagsContext.get().current_tags is       *)
(* {"a","b"} inside the inner scope and {"a"} after the inner scope exits. *)
(***************************************************************************)
C13_TagScopeIsUnion ==
    /\ [][\A u \in Units, g \in TagsInstances, supplied \in SUBSET Tags :
             (g \notin constructed /\ tags(u, g, supplied))
                 => (get_current_tags(ctx[u]))' = get_current_tags(ctx[u]) \cup supplied]_vars
    /\ [][\A u \in Units :
             (InScope(u) /\ Top(u).inst \in TagsInstances /\ exit(u, Top(u).inst))
                 => (get_current_tags(ctx[u]))' = get_current_tags(Top(u).before)]_vars

\* Inside the inner of two nested tag scopes, the outer one carrying {"a"}.
C13_Witness ==
    /\ Len(stack[1]) = 2 /\ nested /\ default_tags = {}
    /\ current_tags[stack[1][1].inst] = {"a"}
    /\ TagsContext_get(ctx[1]) = stack[1][2].inst
    /\ get_current_tags(ctx[1]) = {"a", "b"}

(***************************************************************************)
(* C14. Entering and exiting a nested tag scope never changes the          *)
(* current_tags of any TagsContext instance that exists; after the inner   *)
(* scope exits, the enclosing instance holds the set it held before, and   *)
(* the visible set is empty if no tag scope encloses it.                   *)
(***************************************************************************)
C14_EnclosingTagsUntouched ==
    /\ [][\A h \in constructed :
             (h \in TagsInstances /\ current_tags'[h] # current_tags[h])
                 => \A u \in Units, g \in TagsInstances :
                       /\ ~exit(u, g)
                       /\ \A supplied \in SUBSET Tags : ~tags(u, g, supplied)]_vars
    /\ [][\A u \in Units :
             (InScope(u) /\ Top(u).inst \in TagsInstances
                 /\ Top(u).before[TagsVar] = None /\ exit(u, Top(u).inst))
                 => (get_current_tags(ctx[u]))' = {}]_vars

\* G2 was entered inside G1 and exited; G1 still holds {"a"}, G2 the union.
C14_Witness ==
    /\ nested /\ entered[1] = {"G1", "G2"} /\ token["G2"].used
    /\ Len(stack[1]) = 1 /\ stack[1][1].inst = "G1"
    /\ current_tags["G1"] = {"a"} /\ current_tags["G2"] = {"a", "b"}
    /\ get_current_tags(ctx[1]) = {"a"}

(***************************************************************************)
(* C15. Context values are frozen.  Constructing a run context with a      *)
(* keyword that is no declared field raises a configuration error and      *)
(* yields no context; assigning a declared field (flow_run_id, start_time) *)
(* after construction raises a configuration error and leaves the fields   *)
(* and every binding unchanged.                                            *)
(***************************************************************************)
ConfigurationErrors == {"ValidationError", "TypeError", "ValueError"}

C15_Rejected ==
    /\ \A extra \in SUBSET ExtraNames :
          extra # {} => ContextModel_init_error(extra) \in ConfigurationErrors
    /\ \A name \in FieldNames : ContextModel_setattr_error(name) \in ConfigurationErrors

C15_Frozen ==
    /\ []C15_Rejected
    /\ [][(fields' # fields \/ constructed' # constructed \/ ctx' # ctx)
             => \A i \in RunInstances :
                   /\ \A name \in FieldNames : ~setattr(i, name)
                   /\ \A extra \in SUBSET ExtraNames : extra # {} => ~construct(i, extra)]_vars

\* F1 exists and is bound: an assignment to its flow_run_id raises, and so
\* does constructing another context with an undeclared keyword.
C15_Witness ==
    /\ "F1" \in constructed /\ "F2" \notin constructed
    /\ ctx[1][FlowVar] = "F1"
    /\ fields["F1"].flow_run_id = flow_run_id("F1")
    /\ ContextModel_setattr_error("flow_run_id") = "TypeError"
    /\ ContextModel_init_error({"unexpected"}) = "ValidationError"

(***************************************************************************)
(* C16. Nesting shadows and never destroys.  While pairwise distinct       *)
(* instances are entered and exited in LIFO order on one unit, cls.get()   *)
(* of every class returns the most recently entered instance of that class *)
(* that is not yet exited, and None (the empty default for tags) when      *)
(* there is none; and each exit of the innermost scope makes visible, for  *)
(* every class, what was visible immediately before the matching enter.    *)
(***************************************************************************)
C16_MostRecentOpen ==
    \A u \in started :
        (nested /\ DistinctOn(u))
            => \A v \in Vars :
                   get_of(ctx[u], v) =
                       IF InnermostOpen(u, v) = None THEN get_of(EmptyContext, v)
                       ELSE InnermostOpen(u, v)

C16_NestingShadows ==
    /\ []C16_MostRecentOpen
    /\ [][\A u \in Units :
             (DistinctOn(u) /\ ScopeExit(u))
                 => \A v \in Vars : get_of(ctx'[u], v) = get_of(Top(u).before, v)]_vars

\* F1 then F2 were entered on unit 1 and F2 was exited: F1 is visible again.
C16_Witness ==
    /\ nested /\ enters = 2 /\ entered[1] = {"F1", "F2"}
    /\ Len(stack[1]) = 1 /\ stack[1][1].inst = "F1"
    /\ token["F2"].used
    /\ get_of(ctx[1], FlowVar) = "F1"

(***************************************************************************)
(* C17. Each concrete context class has its own binding: an enter or an    *)
(* exit of an instance of one class leaves what cls.get() returns for each *)
(* of the other two classes unchanged, on every unit.                      *)
(***************************************************************************)
C17_OwnBindingPerType ==
    [][ctx' # ctx =>
         \A u \in Units, i \in Instances :
            (enter(u, i) \/ exit(u, i))
               => \A w \in Units :
                    /\ i \notin FlowInstances
                          => get_of(ctx'[w], FlowVar) = get_of(ctx[w], FlowVar)
                    /\ i \notin TaskInstances
                          => get_of(ctx'[w], TaskVar) = get_of(ctx[w], TaskVar)
                    /\ i \notin TagsInstances
                          => get_of(ctx'[w], TagsVar) = get_of(ctx[w], TagsVar)]_vars

\* F1, T1 and G1 were entered on unit 1 and T1 was exited: F1 and G1 stay.
C17_Witness ==
    /\ entered[1] = {"F1", "T1", "G1"} /\ token["T1"].used
    /\ get_of(ctx[1], TaskVar) = None
    /\ get_of(ctx[1], FlowVar) = "F1"
    /\ get_of(ctx[1], TagsVar) = "G1"

(***************************************************************************)
(* C18. The resolver does not walk up from a task to its parent flow: on a *)
(* unit that entered task run contexts only and has one bound,             *)
(* get_run_context returns that TaskRunContext and FlowRunContext.get()    *)
(* returns None, also while the FlowRunContext of the task's flow_run_id   *)
(* is entered on another unit.                                             *)
(***************************************************************************)
C18_NoWalkUpToParentFlow ==
    \A u \in started :
        (entered[u] \subseteq TaskInstances /\ ctx[u][TaskVar] # None)
            => /\ get_of(ctx[u], FlowVar) = None
               /\ Resolver(ctx[u]) = [raised |-> None, ret |-> ctx[u][TaskVar]]

\* T1 is bound on unit 2 while F1, the flow run T1 belongs to, is bound on unit 1.
C18_Witness ==
    /\ 2 \in started /\ entered[2] = {"T1"} /\ ctx[2][TaskVar] = "T1"
    /\ ctx[1][FlowVar] = "F1" /\ flow_run_id("T1") = flow_run_id("F1")
    /\ get_of(ctx[2], FlowVar) = None
    /\ Resolver(ctx[2]).ret = "T1"

(***************************************************************************)
(* C19. start_time and the other declared fields are fixed at              *)
(* construction: no enter, exit, re-enter or get changes start_time or     *)
(* flow_run_id of a constructed run context; in particular an enter does   *)
(* not set start_time to the time of entry.                                *)
(***************************************************************************)
C19_FieldsFixedAtConstruction ==
    [][\A i \in constructed :
          (i \in RunInstances /\ fields'[i] # fields[i])
              => \A u \in Units :
                    /\ \A j \in RunInstances : ~enter(u, j) /\ ~exit(u, j)
                    /\ \A v \in Vars : ~get(u, v)]_vars

\* F1 was constructed at time 0, entered, exited and entered again later.
C19_Witness ==
    /\ constructed = {"F1"} /\ fields["F1"].start_time = 0
    /\ enters = 2 /\ entered[1] = {"F1"}
    /\ Len(stack[1]) = 1 /\ ctx[1][FlowVar] = "F1"
    /\ now > fields["F1"].start_time

(***************************************************************************)
(* C20. Each enter is exited exactly once: an exit of an instance on a     *)
(* unit that has no open enter of it (it was exited already, or it was     *)
(* never entered there) raises an error and leaves the binding of every    *)
(* class unchanged on every unit.                                          *)
(***************************************************************************)
C20_SpareExitRaises ==
    \A u \in started, i \in Instances : NotOpen(u, i) => ResetError(u, i) # None

C20_ExitExactlyOnce ==
    /\ []C20_SpareExitRaises
    /\ [][\A u \in Units, i \in Instances :
             (NotOpen(u, i) /\ exit(u, i)) => ctx' = ctx]_vars

\* F1 was entered once and exited, and a further exit was attempted.
C20_Witness ==
    /\ enters = 1 /\ entered[1] = {"F1"} /\ stack[1] = <<>>
    /\ token["F1"].used /\ ~nested
    /\ ctx[1] = EmptyContext
(***************************************************************************)
(* C21. Only the entering unit can exit: an exit of an instance called on  *)
(* a unit that has no open enter of it, while another unit has one, raises *)
(* an error and changes no binding, neither the entering unit's nor the    *)
(* calling unit's.                                                         *)
(***************************************************************************)
OpenElsewhereOnly(w, i) == NotOpen(w, i) /\ \E u \in Units \ {w} : ~NotOpen(u, i)

C21_ForeignExitRaises ==
    \A w \in started, i \in Instances : OpenElsewhereOnly(w, i) => ResetError(w, i) # None

C21_OnlyEnteringUnitExits ==
    /\ []C21_ForeignExitRaises
    /\ [][ctx' # ctx =>
             \A w \in Units, i \in Instances : OpenElsewhereOnly(w, i) => ~exit(w, i)]_vars

\* F1 is open on unit 1 only, and unit 2, which never entered anything,
\* has attempted an exit: F1 stays bound on unit 1, nothing is bound on 2.
C21_Witness ==
    /\ 2 \in started /\ enters = 1 /\ ~nested
    /\ entered[1] = {"F1"} /\ entered[2] = {} /\ ~NotOpen(1, "F1")
    /\ ResetError(2, "F1") = "ValueError"
    /\ ctx[1][FlowVar] = "F1" /\ ctx[2] = EmptyContext

(***************************************************************************)
(* C22. The accumulating lists are per flow run and append-only.  A        *)
(* FlowRunContext constructed without explicit lists starts with empty     *)
(* task_run_futures and subflow_states of its own; a list of a flow        *)
(* context changes only by an append made where that context is the        *)
(* visible one, so an append to a subflow's list never shows in the        *)
(* enclosing context's lists; an append keeps the entries already there in *)
(* their order, and no enter or exit changes any list.                     *)
(***************************************************************************)
C22_PerFlowRunAppendOnly ==
    /\ [][\A f \in FlowInstances, fld \in ListFields :
             (f \notin constructed /\ f \in constructed') => (field_list(f, fld))' = <<>>]_vars
    /\ [][\A f \in FlowInstances, fld \in ListFields :
             (field_list(f, fld))' # field_list(f, fld)
                 => /\ Len((field_list(f, fld))') = Len(field_list(f, fld)) + 1
                    /\ SubSeq((field_list(f, fld))', 1, Len(field_list(f, fld)))
                           = field_list(f, fld)
                    /\ \E u \in Units : ctx[u][FlowVar] = f /\ append(u, fld)
                    /\ \A u \in Units, g \in FlowInstances :
                           ~enter(u, g) /\ ~exit(u, g)]_vars

\* Unit 1 ran subflow F2 inside F1 and appended to F2's list; unit 2, also
\* in F1, appended to F1's; F2 was constructed after that and has been exited.
C22_Witness ==
    /\ lists["F1"]["task_run_futures"] = <<2>>
    /\ lists["F2"]["task_run_futures"] = <<1>>
    /\ fields["F2"].start_time > 1
    /\ Len(stack[1]) = 1 /\ stack[1][1].inst = "F1" /\ token["F2"].used
    /\ lists["F1"]["subflow_states"] = <<>> /\ lists["F2"]["subflow_states"] = <<>>
====
